---- MODULE Spec2Model ----
(***************************************************************************)
(* Model of the attack orchestration in wifimitm/wifimitmcli.py: main(),   *)
(* Config.parse_args, Config.cleanup and the __main__ block.               *)
(*                                                                         *)
(* One action per statement of main() that calls a collaborator or that    *)
(* decides a branch.  A collaborator call is one step whose result is      *)
(* drawn from the results its interface allows: normal return, a raised    *)
(* exception ("Error"), or, at the suspension points, KeyboardInterrupt.    *)
(* An exception is routed by the try/except/finally/with blocks that       *)
(* enclose the statement; with no enclosing handler it leaves main().      *)
(* The tempfile.TemporaryDirectory block (line 105) only removes a         *)
(* directory on exit and is not modelled.                                  *)
(***************************************************************************)
EXTENDS Integers, Sequences, FiniteSets, TLC

\* ---------------------------------------------------------------- bounds
\* Longest scan result the model enumerates.
MaxScan == 2

\* Most calls of config.cleanup() the repeated-cleanup specification makes.
MaxCleanups == 2

\* ------------------------------------------------------- program constants
\* class ExitCode, lines 40-71
EX_OK == 0
ARGUMENTS == 2
EX_UNAVAILABLE == 69
EX_NOPERM == 77
TARGET_AP_NOT_FOUND == 79
NOT_IN_ANY_DICTIONARY == 80
PHISHING_INCORRECT_PSK == 81
SUBPROCESS_ERROR == 82
KEYBOARD_INTERRUPT == 130

ExitCode ==
  { EX_OK, ARGUMENTS, EX_UNAVAILABLE, EX_NOPERM, TARGET_AP_NOT_FOUND,
    NOT_IN_ANY_DICTIONARY, PHISHING_INCORRECT_PSK, SUBPROCESS_ERROR,
    KEYBOARD_INTERRUPT }

\* The members of ExitCode, by name.
ExitCodeMembers ==
  { "EX_OK", "ARGUMENTS", "EX_UNAVAILABLE", "EX_NOPERM", "TARGET_AP_NOT_FOUND",
    "NOT_IN_ANY_DICTIONARY", "PHISHING_INCORRECT_PSK", "SUBPROCESS_ERROR",
    "KEYBOARD_INTERRUPT" }

\* Mutant: NOT_IN_ANY_DICTIONARY is given the value of TARGET_AP_NOT_FOUND.
ExitCodeValueCollides(m) ==
  CASE m = "EX_OK" -> EX_OK
    [] m = "ARGUMENTS" -> ARGUMENTS
    [] m = "EX_UNAVAILABLE" -> EX_UNAVAILABLE
    [] m = "EX_NOPERM" -> EX_NOPERM
    [] m = "TARGET_AP_NOT_FOUND" -> TARGET_AP_NOT_FOUND
    [] m = "NOT_IN_ANY_DICTIONARY" -> TARGET_AP_NOT_FOUND
    [] m = "PHISHING_INCORRECT_PSK" -> PHISHING_INCORRECT_PSK
    [] m = "SUBPROCESS_ERROR" -> SUBPROCESS_ERROR
    [] m = "KEYBOARD_INTERRUPT" -> KEYBOARD_INTERRUPT

\* ExitCode.<member>.value, lines 46-70: the exit status of each outcome.
ExitCodeValue(m) ==
  CASE m = "EX_OK" -> EX_OK
    [] m = "ARGUMENTS" -> ARGUMENTS
    [] m = "EX_UNAVAILABLE" -> EX_UNAVAILABLE
    [] m = "EX_NOPERM" -> EX_NOPERM
    [] m = "TARGET_AP_NOT_FOUND" -> TARGET_AP_NOT_FOUND
    [] m = "NOT_IN_ANY_DICTIONARY" -> NOT_IN_ANY_DICTIONARY
    [] m = "PHISHING_INCORRECT_PSK" -> PHISHING_INCORRECT_PSK
    [] m = "SUBPROCESS_ERROR" -> SUBPROCESS_ERROR
    [] m = "KEYBOARD_INTERRUPT" -> KEYBOARD_INTERRUPT

\* ------------------------------------------------------------ input domains
Essids == {"AP1", "AP2", "AP3"}
Channels == {1, 6}

\* A WirelessAccessPoint as main() reads it: essid and channel.
AccessPoints == [essid : Essids, channel : Channels]

\* The values scanner.scan_once() may return: finite sequences of access points.
ScanResults == UNION { [1..n -> AccessPoints] : n \in 0..MaxScan }

\* Phisher passwords: None (falsy) or a harvested string.
None == "None"
Passwords == {"psk1"}

\* The requirements Requirements.check_all() may report as failed.
FailedRequirements == {"UidRequirement", "CommandRequirement"}

\* Exceptions that travel through main().
KeyboardInterrupt == "KeyboardInterrupt"
Error == "Error"
PassphraseNotInAnyDictionaryError == "PassphraseNotInAnyDictionaryError"
UnexpectedTerminationError == "UnexpectedTerminationError"

VARIABLES
  pc,               \* position in main() / the __main__ block
  essid,            \* config.essid
  phishing_enabled, \* config.phishing_enabled
  capture_file,     \* config.capture_file: None, "open" or "closed"
  close_calls,      \* number of capture_file.close() calls
  mode,             \* interface mode: "managed" or "monitor"
  channel,          \* channel the monitor mode is locked to (0: not locked)
  scan,             \* result of scanner.scan_once()
  target,           \* index into scan of the chosen access point (0: None)
  unlock_result,    \* how wireless_unlocker.start() ended
  cracked,          \* target.is_cracked()
  wifiphisher,      \* [active, state, password] of the Wifiphisher
  verified,         \* result of verify_psk: "unknown", "ok", "wrong"
  dumpcap,          \* local dumpcap: None, "running" or "cleaned"
  pending,          \* exception in flight while a finally block runs
  loop_exit,        \* exception that ended the spoof/capture loop
  requirement,      \* e.requirement of the RequirementError (None: all met)
  interrupt_at,     \* call during which KeyboardInterrupt was delivered
  failed_at,        \* last collaborator call that raised Error (None: none)
  connect_arg,      \* argument of wireless_connecter.connect (0: not called)
  releases,         \* number of times the capture file was actually released
  calls,            \* log of the collaborator calls made, in order
  outcomes,         \* ExitCode values produced (returned by main / argparse exit)
  exc,              \* exception that left main() uncaught (None: none)
  exit_status       \* status passed to sys.exit, as a sequence of length <= 1

vars ==
  << pc, essid, phishing_enabled, capture_file, close_calls, releases, mode, channel,
     scan, target, unlock_result, cracked, wifiphisher, verified, dumpcap,
     pending, loop_exit, requirement, interrupt_at, failed_at, connect_arg,
     releases, calls, outcomes, exc, exit_status >>

\* ----------------------------------------------------------------- helpers
Log(c) == Append(calls, c)

Count(s, c) == Cardinality({ i \in 1..Len(s) : s[i] = c })

Called(c) == \E i \in 1..Len(calls) : calls[i] = c

\* Config.cleanup, lines 335-337, as the new value of capture_file: a file
\* object is truthy whether open or closed, so close() is called on both.
CleanupFile(f) == IF f # None THEN "closed" ELSE f

\* Config.cleanup, lines 335-337: number of close() calls it makes.
CleanupCloses(f) == IF f # None THEN 1 ELSE 0

\* Mutant: cleanup releases the underlying file on every call, open or not.
CleanupReleasesAlways(f) == IF f # None THEN 1 ELSE 0

\* Config.cleanup, line 337: capture_file.close() releases the file only when
\* it is still open; close() of a closed file object has no effect.
CleanupReleases(f) == IF f = "open" THEN 1 ELSE 0

\* Mutant: the two exit codes of a failed requirement are swapped.
RequirementExitCodeSwapped(req) ==
  IF req = "UidRequirement" THEN EX_UNAVAILABLE ELSE EX_NOPERM

\* Lines 91-94: exit code chosen for a failed requirement.
RequirementExitCode(req) ==
  IF req = "UidRequirement" THEN EX_NOPERM ELSE EX_UNAVAILABLE

\* Mutant: the loop has no break, so the last matching entry is kept.
FindTargetLast(s, name) ==
  IF \E i \in 1..Len(s) : s[i].essid = name
  THEN CHOOSE i \in 1..Len(s) :
         s[i].essid = name /\ \A j \in (i + 1)..Len(s) : s[j].essid # name
  ELSE 0

\* Mutant: the loop takes the first entry of the scan whatever its essid.
FindTargetAnyEssid(s, name) == IF Len(s) > 0 THEN 1 ELSE 0

\* Lines 114-120: the first access point of the scan whose essid equals the
\* requested one, as an index into the scan (0 when the loop finds none).
FindTarget(s, name) ==
  IF \E i \in 1..Len(s) : s[i].essid = name
  THEN CHOOSE i \in 1..Len(s) :
         s[i].essid = name /\ \A j \in 1..(i - 1) : s[j].essid # name
  ELSE 0

\* Mutant: the fork tests the phishing flag before target.is_cracked(), so a
\* cracked target is phished all the same.
AfterUnlockPhishFirst(isCracked, phishing) ==
  IF phishing THEN "phishing"
  ELSE IF isCracked THEN "connect" ELSE "not_in_dictionary"

\* Mutant: the fork only looks at the phishing flag, so an uncracked target
\* without phishing falls through to connect.
AfterUnlockFallsThrough(isCracked, phishing) ==
  IF ~isCracked /\ phishing THEN "phishing" ELSE "connect"

\* Lines 135-136 and 160: the fork after unlocking.
AfterUnlock(isCracked, phishing) ==
  IF ~isCracked
  THEN IF phishing THEN "phishing" ELSE "not_in_dictionary"
  ELSE "connect"

\* Mutant: the poll loop never notices a terminated Phisher.
PhisherNeverDead(state, password) == FALSE

\* Line 144: the poll loop's test for a dead Wifiphisher.
PhisherDead(state, password) == state = "TERMINATED" /\ password = None

\* Mutant: the test of the verification result is inverted.
PskRejectedInverted(verifyResult) == verifyResult

\* Mutant: the result of the verification is ignored.
PskNeverRejected(verifyResult) == FALSE

\* Line 148: the test of the harvested passphrase.
PskRejected(verifyResult) == ~verifyResult

\* main() returns an ExitCode value (a return statement).
Return(code) ==
  /\ pc' = "returned"
  /\ outcomes' = Append(outcomes, code)
  /\ UNCHANGED << exc, exit_status >>

\* An exception no handler of main() catches leaves main() (line 341).
Escape(e) ==
  /\ pc' = "raised"
  /\ exc' = e
  /\ UNCHANGED << outcomes, exit_status >>

\* config.cleanup() followed by return of `code` (lines 97-98, 150-151,
\* 154-155, 158-159, 163-164, 203-204, 206-207); `log` is the call log so far.
CleanupAndReturn(log, code) ==
  /\ calls' = Append(log, "config.cleanup")
  /\ capture_file' = CleanupFile(capture_file)
  /\ close_calls' = close_calls + CleanupCloses(capture_file)
  /\ releases' = releases + CleanupReleases(capture_file)
  /\ Return(code)

\* Mutant: the Phisher is used without a with block and is never torn down.
PhisherLeftActive == wifiphisher

\* Wifiphisher.__exit__ at the end of the with block of line 141.
PhisherExited == [wifiphisher EXCEPT !.active = FALSE]

Goto(p) == pc' = p /\ UNCHANGED << outcomes, exc, exit_status >>

\* -------------------------------------------------------------------- Init
Init ==
  /\ pc = "parse_args"
  /\ essid = None
  /\ phishing_enabled = FALSE
  /\ capture_file = None
  /\ close_calls = 0
  /\ mode = "managed"
  /\ channel = 0
  /\ scan = << >>
  /\ target = 0
  /\ unlock_result = None
  /\ cracked = FALSE
  /\ wifiphisher = [active |-> FALSE, state |-> None, password |-> None]
  /\ verified = "unknown"
  /\ dumpcap = None
  /\ pending = None
  /\ loop_exit = None
  /\ requirement = None
  /\ interrupt_at = None
  /\ failed_at = None
  /\ connect_arg = 0
  /\ releases = 0
  /\ calls = << >>
  /\ outcomes = << >>
  /\ exc = None
  /\ exit_status = << >>

\* ----------------------------------------------------------------- actions
\* Line 79, Config.parse_args (lines 296-333): the arguments are accepted and
\* stored in config, or parser.error ends the process with status 2 before
\* any field of config is assigned.
ParseArgs ==
  /\ pc = "parse_args"
  /\ \E ok \in BOOLEAN, e \in Essids, ph \in BOOLEAN, cf \in {None, "open"} :
       IF ok
       THEN /\ essid' = e
            /\ phishing_enabled' = ph
            /\ capture_file' = cf
            /\ Goto("check_all")
       ELSE /\ pc' = "exited"
            /\ outcomes' = Append(outcomes, ARGUMENTS)
            /\ exit_status' = << ARGUMENTS >>
            /\ UNCHANGED << essid, phishing_enabled, capture_file, exc >>
  /\ UNCHANGED << close_calls, releases, mode, channel, scan, target,
                  unlock_result, cracked, wifiphisher, verified, dumpcap,
                  pending, loop_exit, calls >>
  /\ UNCHANGED << requirement, interrupt_at >>
  /\ UNCHANGED << failed_at, connect_arg >>

\* Lines 88-98: Requirements.check_all(); a RequirementError ends the run
\* with the exit code of the failing requirement after config.cleanup().
CheckAll ==
  /\ pc = "check_all"
  /\ \E req \in FailedRequirements \cup {None} :
       /\ requirement' = req
       /\ IF req = None
          THEN /\ Goto("scan_start_monitor")
               /\ UNCHANGED << calls, capture_file, close_calls, releases >>
          ELSE CleanupAndReturn(calls, RequirementExitCode(req))
  /\ UNCHANGED << essid, phishing_enabled, mode, channel, scan, target,
                  unlock_result, cracked, wifiphisher, verified, dumpcap,
                  pending, loop_exit >>
  /\ UNCHANGED interrupt_at
  /\ UNCHANGED << failed_at, connect_arg >>

\* Line 106: interface.start_monitor_mode()
ScanStartMonitor ==
  /\ pc = "scan_start_monitor"
  /\ mode' = "monitor"
  /\ channel' = 0
  /\ calls' = Log("start_monitor_mode")
  /\ Goto("scan_once")
  /\ UNCHANGED << essid, phishing_enabled, capture_file, close_calls, releases, scan,
                  target, unlock_result, cracked, wifiphisher, verified,
                  dumpcap, pending, loop_exit >>
  /\ UNCHANGED << requirement, interrupt_at >>
  /\ UNCHANGED << failed_at, connect_arg >>

\* Line 110: scanner.scan_once().  No try block encloses it: a failure or an
\* interrupt leaves main() without reaching line 112.
ScanOnce ==
  /\ pc = "scan_once"
  /\ calls' = Log("scan_once")
  /\ \/ /\ \E s \in ScanResults : scan' = s
        /\ Goto("scan_stop_monitor")
        /\ UNCHANGED << interrupt_at, failed_at >>
     \/ /\ Escape(Error)
        /\ failed_at' = "scan_once"
        /\ UNCHANGED << scan, interrupt_at >>
     \/ /\ Escape(KeyboardInterrupt)
        /\ interrupt_at' = "scan_once"
        /\ UNCHANGED << scan, failed_at >>
  /\ UNCHANGED << essid, phishing_enabled, capture_file, close_calls, releases, mode,
                  channel, target, unlock_result, cracked, wifiphisher,
                  verified, dumpcap, pending, loop_exit >>
  /\ UNCHANGED requirement
  /\ UNCHANGED << connect_arg >>

\* Line 112: interface.stop_monitor_mode()
ScanStopMonitor ==
  /\ pc = "scan_stop_monitor"
  /\ mode' = "managed"
  /\ channel' = 0
  /\ calls' = Log("stop_monitor_mode")
  /\ Goto("find_target")
  /\ UNCHANGED << essid, phishing_enabled, capture_file, close_calls, releases, scan,
                  target, unlock_result, cracked, wifiphisher, verified,
                  dumpcap, pending, loop_exit >>
  /\ UNCHANGED << requirement, interrupt_at >>
  /\ UNCHANGED << failed_at, connect_arg >>

\* Lines 114-122 and 200-204: search the scan for the target; without one,
\* config.cleanup() and return TARGET_AP_NOT_FOUND.
FindTargetStep ==
  /\ pc = "find_target"
  /\ target' = FindTarget(scan, essid)
  /\ IF target' # 0
     THEN /\ Goto("unlock_start_monitor")
          /\ UNCHANGED << calls, capture_file, close_calls, releases >>
     ELSE CleanupAndReturn(calls, TARGET_AP_NOT_FOUND)
  /\ UNCHANGED << essid, phishing_enabled, mode, channel, scan, unlock_result,
                  cracked, wifiphisher, verified, dumpcap, pending, loop_exit >>
  /\ UNCHANGED << requirement, interrupt_at >>
  /\ UNCHANGED << failed_at, connect_arg >>

\* Line 125: interface.start_monitor_mode(target.channel)
UnlockStartMonitor ==
  /\ pc = "unlock_start_monitor"
  /\ mode' = "monitor"
  /\ channel' = scan[target].channel
  /\ calls' = Log("start_monitor_mode")
  /\ Goto("unlock")
  /\ UNCHANGED << essid, phishing_enabled, capture_file, close_calls, releases, scan,
                  target, unlock_result, cracked, wifiphisher, verified,
                  dumpcap, pending, loop_exit >>
  /\ UNCHANGED << requirement, interrupt_at >>
  /\ UNCHANGED << failed_at, connect_arg >>

\* Lines 127-131: wireless_unlocker.start().  A dictionary miss is swallowed
\* and leaves the target uncracked; any other exception stays in flight while
\* the finally block of line 132 runs.
Unlock ==
  /\ pc = "unlock"
  /\ calls' = Log("unlocker.start")
  /\ \E r \in {"ok", PassphraseNotInAnyDictionaryError, Error, KeyboardInterrupt} :
       /\ unlock_result' = r
       /\ pending' = IF r \in {Error, KeyboardInterrupt} THEN r ELSE None
       /\ IF r = "ok" THEN cracked' \in BOOLEAN ELSE cracked' = FALSE
       /\ interrupt_at' = IF r = KeyboardInterrupt THEN "unlocker.start" ELSE interrupt_at
       /\ failed_at' = IF r = Error THEN "unlocker.start" ELSE failed_at
  /\ Goto("unlock_stop_monitor")
  /\ UNCHANGED << essid, phishing_enabled, capture_file, close_calls, releases, mode,
                  channel, scan, target, wifiphisher, verified, dumpcap,
                  loop_exit >>
  /\ UNCHANGED requirement
  /\ UNCHANGED << connect_arg >>

\* Mutant: stop_monitor_mode() follows the try block instead of being in a
\* finally, so an exception in flight skips it.
UnlockStopMonitorOnSuccessOnly ==
  /\ pc = "unlock_stop_monitor"
  /\ IF pending # None
     THEN /\ Escape(pending)
          /\ UNCHANGED << mode, channel, calls >>
     ELSE /\ mode' = "managed"
          /\ channel' = 0
          /\ calls' = Log("stop_monitor_mode")
          /\ Goto("fork")
  /\ pending' = None
  /\ UNCHANGED << essid, phishing_enabled, capture_file, close_calls, releases,
                  scan, target, unlock_result, cracked, wifiphisher, verified,
                  dumpcap, loop_exit, requirement, interrupt_at, failed_at,
                  connect_arg >>

\* Lines 132-133: finally: interface.stop_monitor_mode(); an exception in
\* flight then leaves main().
UnlockStopMonitor ==
  /\ pc = "unlock_stop_monitor"
  /\ mode' = "managed"
  /\ channel' = 0
  /\ calls' = Log("stop_monitor_mode")
  /\ IF pending # None THEN Escape(pending) ELSE Goto("fork")
  /\ pending' = None
  /\ UNCHANGED << essid, phishing_enabled, capture_file, close_calls, releases, scan,
                  target, unlock_result, cracked, wifiphisher, verified,
                  dumpcap, loop_exit >>
  /\ UNCHANGED << requirement, interrupt_at >>
  /\ UNCHANGED << failed_at, connect_arg >>

\* Lines 135-136 and 160-164: the fork on target.is_cracked() and
\* config.phishing_enabled.
Fork ==
  /\ pc = "fork"
  /\ LET next == AfterUnlock(cracked, phishing_enabled) IN
       IF next = "not_in_dictionary"
       THEN CleanupAndReturn(calls, NOT_IN_ANY_DICTIONARY)
       ELSE /\ Goto(IF next = "phishing" THEN "phisher_enter" ELSE "connect")
            /\ UNCHANGED << calls, capture_file, close_calls, releases >>
  /\ UNCHANGED << essid, phishing_enabled, mode, channel, scan, target,
                  unlock_result, cracked, wifiphisher, verified, dumpcap,
                  pending, loop_exit >>
  /\ UNCHANGED << requirement, interrupt_at >>
  /\ UNCHANGED << failed_at, connect_arg >>

\* Line 141: with Wifiphisher(...) as wifiphisher: the Phisher is acquired.
PhisherEnter ==
  /\ pc = "phisher_enter"
  /\ wifiphisher' = [active |-> TRUE, state |-> "STARTED", password |-> None]
  /\ calls' = Log("wifiphisher.enter")
  /\ Goto("phish_loop")
  /\ UNCHANGED << essid, phishing_enabled, capture_file, close_calls, releases, mode,
                  channel, scan, target, unlock_result, cracked, verified,
                  dumpcap, pending, loop_exit >>
  /\ UNCHANGED << requirement, interrupt_at >>
  /\ UNCHANGED << failed_at, connect_arg >>

\* Line 142: while not wifiphisher.password
PhishLoop ==
  /\ pc = "phish_loop"
  /\ Goto(IF wifiphisher.password = None THEN "phish_update" ELSE "verify")
  /\ UNCHANGED << essid, phishing_enabled, capture_file, close_calls, releases, mode,
                  channel, scan, target, unlock_result, cracked, wifiphisher,
                  verified, dumpcap, pending, loop_exit, calls >>
  /\ UNCHANGED << requirement, interrupt_at >>
  /\ UNCHANGED << failed_at, connect_arg >>

\* Line 143: wifiphisher.update() refreshes the Phisher's state and password.
PhishUpdate ==
  /\ pc = "phish_update"
  /\ \E st \in {"RUNNING", "TERMINATED"}, pw \in Passwords \cup {None} :
       wifiphisher' = [wifiphisher EXCEPT !.state = st, !.password = pw]
  /\ Goto("phish_check")
  /\ UNCHANGED << essid, phishing_enabled, capture_file, close_calls, releases, mode,
                  channel, scan, target, unlock_result, cracked, verified,
                  dumpcap, pending, loop_exit, calls >>
  /\ UNCHANGED << requirement, interrupt_at >>
  /\ UNCHANGED << failed_at, connect_arg >>

\* Lines 144-145 and 156-159: a terminated Phisher without a password raises
\* UnexpectedTerminationError, which leaves the with block (teardown) and is
\* handled by config.cleanup() and return SUBPROCESS_ERROR.
PhishCheck ==
  /\ pc = "phish_check"
  /\ IF PhisherDead(wifiphisher.state, wifiphisher.password)
     THEN /\ wifiphisher' = PhisherExited
          /\ CleanupAndReturn(Log("wifiphisher.exit"), SUBPROCESS_ERROR)
     ELSE /\ Goto("phish_sleep")
          /\ UNCHANGED << wifiphisher, calls, capture_file, close_calls, releases >>
  /\ UNCHANGED << essid, phishing_enabled, mode, channel, scan, target,
                  unlock_result, cracked, verified, dumpcap, pending,
                  loop_exit >>
  /\ UNCHANGED << requirement, interrupt_at >>
  /\ UNCHANGED << failed_at, connect_arg >>

\* Lines 146 and 152-155: time.sleep(3); an interrupt leaves the with block
\* (teardown) and is handled by config.cleanup() and return KEYBOARD_INTERRUPT.
PhishSleep ==
  /\ pc = "phish_sleep"
  /\ \/ /\ Goto("phish_loop")
        /\ UNCHANGED << wifiphisher, calls, capture_file, close_calls, releases, interrupt_at >>
     \/ /\ interrupt_at' = "phish_sleep"
        /\ wifiphisher' = PhisherExited
        /\ CleanupAndReturn(Log("wifiphisher.exit"), KEYBOARD_INTERRUPT)
  /\ UNCHANGED << essid, phishing_enabled, mode, channel, scan, target,
                  unlock_result, cracked, verified, dumpcap, pending,
                  loop_exit >>
  /\ UNCHANGED requirement
  /\ UNCHANGED << failed_at, connect_arg >>

\* Lines 148-150: verify_psk(target, wifiphisher.password).  A rejected
\* passphrase runs config.cleanup() inside the with block; an accepted one
\* leaves the with block (teardown) and goes on to connect.
Verify ==
  /\ pc = "verify"
  /\ \E ok \in BOOLEAN :
       /\ verified' = IF ok THEN "ok" ELSE "wrong"
       /\ IF PskRejected(ok)
          THEN /\ calls' = Append(Log("verify_psk"), "config.cleanup")
               /\ capture_file' = CleanupFile(capture_file)
               /\ close_calls' = close_calls + CleanupCloses(capture_file)
               /\ releases' = releases + CleanupReleases(capture_file)
               /\ Goto("phish_return")
               /\ UNCHANGED wifiphisher
          ELSE /\ calls' = Append(Log("verify_psk"), "wifiphisher.exit")
               /\ wifiphisher' = PhisherExited
               /\ Goto("connect")
               /\ UNCHANGED << capture_file, close_calls, releases >>
  /\ UNCHANGED << essid, phishing_enabled, mode, channel, scan, target,
                  unlock_result, cracked, dumpcap, pending, loop_exit >>
  /\ UNCHANGED << requirement, interrupt_at >>
  /\ UNCHANGED << failed_at, connect_arg >>

\* Line 151: return PHISHING_INCORRECT_PSK from inside the with block, whose
\* exit tears the Phisher down before main() returns.
PhishReturn ==
  /\ pc = "phish_return"
  /\ wifiphisher' = PhisherExited
  /\ calls' = Log("wifiphisher.exit")
  /\ Return(PHISHING_INCORRECT_PSK)
  /\ UNCHANGED << essid, phishing_enabled, capture_file, close_calls, releases, mode,
                  channel, scan, target, unlock_result, cracked, verified,
                  dumpcap, pending, loop_exit >>
  /\ UNCHANGED << requirement, interrupt_at >>
  /\ UNCHANGED << failed_at, connect_arg >>

\* Line 172: wireless_connecter.connect(target).  No try block encloses it.
Connect ==
  /\ pc = "connect"
  /\ calls' = Log("connect")
  /\ connect_arg' = target
  /\ \/ Goto("arp_start") /\ UNCHANGED << interrupt_at, failed_at >>
     \/ Escape(Error) /\ failed_at' = "connect" /\ UNCHANGED interrupt_at
     \/ /\ Escape(KeyboardInterrupt)
        /\ interrupt_at' = "connect"
        /\ UNCHANGED failed_at
  /\ UNCHANGED << essid, phishing_enabled, capture_file, close_calls, releases, mode,
                  channel, scan, target, unlock_result, cracked, wifiphisher,
                  verified, dumpcap, pending, loop_exit >>
  /\ UNCHANGED requirement

\* Line 179: arp_spoofing.start().  No try block encloses it.
ArpStart ==
  /\ pc = "arp_start"
  /\ calls' = Log("arp.start")
  /\ \/ Goto("dumpcap_new") /\ UNCHANGED failed_at
     \/ Escape(Error) /\ failed_at' = "arp.start"
  /\ UNCHANGED << essid, phishing_enabled, capture_file, close_calls, releases, mode,
                  channel, scan, target, unlock_result, cracked, wifiphisher,
                  verified, dumpcap, pending, loop_exit >>
  /\ UNCHANGED << requirement, interrupt_at >>
  /\ UNCHANGED << connect_arg >>

\* Lines 182-185: dumpcap = None; with a capture file, dumpcap = Dumpcap(...).
\* The enclosing try (line 181) only catches KeyboardInterrupt and the inner
\* try is not entered yet, so a failing constructor leaves main().
DumpcapNew ==
  /\ pc = "dumpcap_new"
  /\ IF capture_file # None
     THEN /\ calls' = Log("dumpcap.new")
          /\ \/ dumpcap' = "running" /\ Goto("arp_update") /\ UNCHANGED failed_at
             \/ dumpcap' = None /\ Escape(Error) /\ failed_at' = "dumpcap.new"
     ELSE /\ dumpcap' = None
          /\ Goto("arp_update")
          /\ UNCHANGED << calls, failed_at >>
  /\ UNCHANGED << essid, phishing_enabled, capture_file, close_calls, releases, mode,
                  channel, scan, target, unlock_result, cracked, wifiphisher,
                  verified, pending, loop_exit >>
  /\ UNCHANGED << requirement, interrupt_at >>
  /\ UNCHANGED << connect_arg >>

\* Line 188: arp_spoofing.update_state(); a failure enters the finally block.
ArpUpdate ==
  /\ pc = "arp_update"
  /\ \/ Goto("dumpcap_update") /\ UNCHANGED << pending, loop_exit, failed_at >>
     \/ /\ pending' = Error /\ loop_exit' = Error
        /\ failed_at' = "arp.update_state"
        /\ Goto("dumpcap_cleanup")
  /\ UNCHANGED << essid, phishing_enabled, capture_file, close_calls, releases, mode,
                  channel, scan, target, unlock_result, cracked, wifiphisher,
                  verified, dumpcap, calls >>
  /\ UNCHANGED << requirement, interrupt_at >>
  /\ UNCHANGED << connect_arg >>

\* Lines 189-190: if dumpcap: dumpcap.update(); a failure enters the finally
\* block.
DumpcapUpdate ==
  /\ pc = "dumpcap_update"
  /\ \/ Goto("spoof_sleep") /\ UNCHANGED << pending, loop_exit, failed_at >>
     \/ /\ dumpcap # None
        /\ pending' = Error /\ loop_exit' = Error
        /\ failed_at' = "dumpcap.update"
        /\ Goto("dumpcap_cleanup")
  /\ UNCHANGED << essid, phishing_enabled, capture_file, close_calls, releases, mode,
                  channel, scan, target, unlock_result, cracked, wifiphisher,
                  verified, dumpcap, calls >>
  /\ UNCHANGED << requirement, interrupt_at >>
  /\ UNCHANGED << connect_arg >>

\* Line 191: time.sleep(1); an interrupt enters the finally block.
SpoofSleep ==
  /\ pc = "spoof_sleep"
  /\ \/ Goto("arp_update") /\ UNCHANGED << pending, loop_exit, interrupt_at >>
     \/ /\ pending' = KeyboardInterrupt /\ loop_exit' = KeyboardInterrupt
        /\ interrupt_at' = "spoof_sleep"
        /\ Goto("dumpcap_cleanup")
  /\ UNCHANGED << essid, phishing_enabled, capture_file, close_calls, releases, mode,
                  channel, scan, target, unlock_result, cracked, wifiphisher,
                  verified, dumpcap, calls >>
  /\ UNCHANGED requirement
  /\ UNCHANGED << failed_at, connect_arg >>

\* Mutant: the recorder teardown sits in the KeyboardInterrupt handler instead
\* of a finally block, so a failure leaving the loop skips it.
DumpcapCleanupOnInterruptOnly ==
  /\ pc = "dumpcap_cleanup"
  /\ IF pending = KeyboardInterrupt
     THEN /\ Goto("arp_stop")
          /\ IF dumpcap # None
             THEN dumpcap' = "cleaned" /\ calls' = Log("dumpcap.cleanup")
             ELSE UNCHANGED << dumpcap, calls >>
     ELSE /\ Escape(pending)
          /\ UNCHANGED << dumpcap, calls >>
  /\ pending' = None
  /\ UNCHANGED << essid, phishing_enabled, capture_file, close_calls, releases,
                  mode, channel, scan, target, unlock_result, cracked,
                  wifiphisher, verified, loop_exit, requirement, interrupt_at,
                  failed_at, connect_arg >>

\* Mutant: the recorder teardown is not in a finally block, so an exception
\* or interrupt leaving the loop skips it.
DumpcapCleanupSkipped ==
  /\ pc = "dumpcap_cleanup"
  /\ IF pending = KeyboardInterrupt THEN Goto("arp_stop") ELSE Escape(pending)
  /\ pending' = None
  /\ UNCHANGED << essid, phishing_enabled, capture_file, close_calls, releases, mode,
                  channel, scan, target, unlock_result, cracked, wifiphisher,
                  verified, dumpcap, calls, loop_exit, requirement,
                  interrupt_at >>
  /\ UNCHANGED << failed_at, connect_arg >>

\* Lines 192-196: finally: if dumpcap: dumpcap.cleanup().  A failing cleanup
\* replaces the exception in flight.  Afterwards KeyboardInterrupt is caught
\* by line 195; any other exception leaves main().
DumpcapCleanup ==
  /\ pc = "dumpcap_cleanup"
  /\ \E r \in {"ok", Error} :
       /\ r = Error => dumpcap # None
       /\ failed_at' = IF r = Error THEN "dumpcap.cleanup" ELSE failed_at
       /\ LET inflight == IF r = Error THEN Error ELSE pending IN
            IF inflight = KeyboardInterrupt
            THEN Goto("arp_stop")
            ELSE Escape(inflight)
  /\ IF dumpcap # None
     THEN dumpcap' = "cleaned" /\ calls' = Log("dumpcap.cleanup")
     ELSE UNCHANGED << dumpcap, calls >>
  /\ pending' = None
  /\ UNCHANGED << essid, phishing_enabled, capture_file, close_calls, releases, mode,
                  channel, scan, target, unlock_result, cracked, wifiphisher,
                  verified, loop_exit >>
  /\ UNCHANGED << requirement, interrupt_at >>
  /\ UNCHANGED << connect_arg >>

\* Line 197: arp_spoofing.stop()
ArpStop ==
  /\ pc = "arp_stop"
  /\ calls' = Log("arp.stop")
  /\ Goto("arp_clean")
  /\ UNCHANGED << essid, phishing_enabled, capture_file, close_calls, releases, mode,
                  channel, scan, target, unlock_result, cracked, wifiphisher,
                  verified, dumpcap, pending, loop_exit >>
  /\ UNCHANGED << requirement, interrupt_at >>
  /\ UNCHANGED << failed_at, connect_arg >>

\* Line 198: arp_spoofing.clean()
ArpClean ==
  /\ pc = "arp_clean"
  /\ calls' = Log("arp.clean")
  /\ Goto("disconnect")
  /\ UNCHANGED << essid, phishing_enabled, capture_file, close_calls, releases, mode,
                  channel, scan, target, unlock_result, cracked, wifiphisher,
                  verified, dumpcap, pending, loop_exit >>
  /\ UNCHANGED << requirement, interrupt_at >>
  /\ UNCHANGED << failed_at, connect_arg >>

\* Line 199: wireless_connecter.disconnect(); an interrupt here is outside
\* every try block.
Disconnect ==
  /\ pc = "disconnect"
  /\ calls' = Log("disconnect")
  /\ \/ Goto("final_cleanup") /\ UNCHANGED interrupt_at
     \/ Escape(KeyboardInterrupt) /\ interrupt_at' = "disconnect"
  /\ UNCHANGED << essid, phishing_enabled, capture_file, close_calls, releases, mode,
                  channel, scan, target, unlock_result, cracked, wifiphisher,
                  verified, dumpcap, pending, loop_exit >>
  /\ UNCHANGED requirement
  /\ UNCHANGED << failed_at, connect_arg >>

\* Lines 206-207: config.cleanup(); return EX_OK
FinalCleanup ==
  /\ pc = "final_cleanup"
  /\ CleanupAndReturn(calls, EX_OK)
  /\ UNCHANGED << essid, phishing_enabled, mode, channel, scan, target,
                  unlock_result, cracked, wifiphisher, verified, dumpcap,
                  pending, loop_exit >>
  /\ UNCHANGED << requirement, interrupt_at >>
  /\ UNCHANGED << failed_at, connect_arg >>

\* Lines 340-342: status = main(); sys.exit(status)
SysExit ==
  /\ pc = "returned"
  /\ pc' = "exited"
  /\ exit_status' = << outcomes[Len(outcomes)] >>
  /\ UNCHANGED << essid, phishing_enabled, capture_file, close_calls, releases, mode,
                  channel, scan, target, unlock_result, cracked, wifiphisher,
                  verified, dumpcap, pending, loop_exit, calls, outcomes, exc >>
  /\ UNCHANGED << requirement, interrupt_at >>
  /\ UNCHANGED << failed_at, connect_arg >>

Next ==
  \/ ParseArgs
  \/ CheckAll
  \/ ScanStartMonitor
  \/ ScanOnce
  \/ ScanStopMonitor
  \/ FindTargetStep
  \/ UnlockStartMonitor
  \/ Unlock
  \/ UnlockStopMonitor
  \/ Fork
  \/ PhisherEnter
  \/ PhishLoop
  \/ PhishUpdate
  \/ PhishCheck
  \/ PhishSleep
  \/ Verify
  \/ PhishReturn
  \/ Connect
  \/ ArpStart
  \/ DumpcapNew
  \/ ArpUpdate
  \/ DumpcapUpdate
  \/ SpoofSleep
  \/ DumpcapCleanup
  \/ ArpStop
  \/ ArpClean
  \/ Disconnect
  \/ FinalCleanup
  \/ SysExit

Spec == Init /\ [][Next]_vars

\* Config.cleanup (lines 335-337) called again by the caller of main() after
\* main() has run it once and returned.
ConfigCleanupAgain ==
  /\ pc \in {"returned", "exited"}
  /\ Called("config.cleanup")
  /\ Count(calls, "config.cleanup") < MaxCleanups
  /\ calls' = Log("config.cleanup")
  /\ capture_file' = CleanupFile(capture_file)
  /\ close_calls' = close_calls + CleanupCloses(capture_file)
  /\ releases' = releases + CleanupReleases(capture_file)
  /\ UNCHANGED << pc, essid, phishing_enabled, mode, channel, scan, target,
                  unlock_result, cracked, wifiphisher, verified, dumpcap,
                  pending, loop_exit, requirement, interrupt_at, failed_at,
                  connect_arg, outcomes, exc, exit_status >>

NextWithCleanupAgain == Next \/ ConfigCleanupAgain

\* Runs of main() followed by further calls of config.cleanup().
CleanupAgainSpec == Init /\ [][NextWithCleanupAgain]_vars

\* The interpreter keeps executing main(): every enabled step is eventually
\* taken.
FairSpec == Spec /\ WF_vars(Next)

\* ------------------------------------------------------------------ claims
\* main() has ended: by a return, by an exception, or by argparse's exit.
MainEnded == pc \in {"returned", "exited", "raised"}

\* main() itself has ended: by a return statement or by an uncaught exception.
MainLeft ==
  \/ pc = "raised"
  \/ pc \in {"returned", "exited"} /\ outcomes # << ARGUMENTS >>

\* No entry of the scan result carries the requested essid.
NoMatch == \A i \in 1..Len(scan) : scan[i].essid # essid

\* scanner.scan_once() has returned a scan result.
ScanReturned ==
  pc \notin {"parse_args", "check_all", "scan_start_monitor", "scan_once"}
  /\ Called("scan_once")
  /\ ~(pc = "raised" /\ calls[Len(calls)] = "scan_once")

\* C1: whenever main() has ended, by return or by an escaping exception or
\* interrupt, the interface is in managed mode.
C1_ManagedWhenMainEnds == MainEnded => mode = "managed"

\* C2: a run in which an interrupt was delivered at a suspension point ends
\* by returning KEYBOARD_INTERRUPT (130), never by an escaping exception and
\* never with another outcome.
C2_InterruptEndsUserInterrupt ==
  (MainEnded /\ interrupt_at # None) =>
    (pc # "raised" /\ outcomes = << KEYBOARD_INTERRUPT >>)

\* C3: once main() has ended, however it ended, config.cleanup() has been
\* performed exactly once.
C3_CleanupExactlyOnce == MainLeft => Count(calls, "config.cleanup") = 1

\* C4: once main() has ended, exactly one outcome of ExitCode has been
\* produced, and no exception has escaped.
C4_ExactlyOneOutcome ==
  MainEnded =>
    /\ pc # "raised"
    /\ Len(outcomes) = 1
    /\ outcomes[1] \in ExitCode
    /\ pc = "exited" => exit_status = outcomes

\* C5: when the scan result holds no entry with the requested essid, control
\* only goes from the search to the TARGET_AP_NOT_FOUND return: the Unlocker,
\* the Phisher, connect and the spoofer are never called and the run ends
\* with exit status 79.
C5_NoMatchTargetNotFound ==
  (ScanReturned /\ NoMatch) =>
    /\ pc \in {"scan_stop_monitor", "find_target", "returned", "exited"}
    /\ ~Called("unlocker.start")
    /\ ~Called("wifiphisher.enter")
    /\ ~Called("connect")
    /\ ~Called("arp.start")
    /\ MainEnded => outcomes = << TARGET_AP_NOT_FOUND >>
    /\ pc = "exited" => exit_status = << 79 >>

\* C5 witness: a run over a two-entry scan without the requested essid has
\* exited with status 79.
C5_Witness ==
  /\ pc = "exited"
  /\ Len(scan) = 2
  /\ NoMatch
  /\ exit_status = << 79 >>
  /\ Count(calls, "config.cleanup") = 1

\* C6: when the Unlocker reported that the passphrase is in no dictionary,
\* the target is uncracked and phishing is disabled, connect is never called
\* and the run ends with exit status 80.
C6_DictionaryMissNoPhishing ==
  ( /\ unlock_result = PassphraseNotInAnyDictionaryError
    /\ ~cracked
    /\ ~phishing_enabled ) =>
    /\ pc \in {"unlock_stop_monitor", "fork", "returned", "exited"}
    /\ ~Called("connect")
    /\ ~Called("wifiphisher.enter")
    /\ MainEnded => outcomes = << NOT_IN_ANY_DICTIONARY >>
    /\ pc = "exited" => exit_status = << 80 >>

\* C6 witness: such a run has exited with status 80.
C6_Witness ==
  /\ pc = "exited"
  /\ unlock_result = PassphraseNotInAnyDictionaryError
  /\ ~cracked
  /\ ~phishing_enabled
  /\ exit_status = << 80 >>

\* C7: when verify_psk rejected the harvested passphrase, connect is never
\* called and the run ends with exit status 81.
C7_RejectedPhishedPassphrase ==
  verified = "wrong" =>
    /\ wifiphisher.password # None
    /\ pc \in {"phish_return", "returned", "exited"}
    /\ ~Called("connect")
    /\ MainEnded => outcomes = << PHISHING_INCORRECT_PSK >>
    /\ pc = "exited" => exit_status = << 81 >>

\* C7 witness: a run whose harvested passphrase was rejected has exited with
\* status 81.
C7_Witness ==
  /\ pc = "exited"
  /\ verified = "wrong"
  /\ wifiphisher.password \in Passwords
  /\ exit_status = << 81 >>

\* The poll loop has just observed a terminated Phisher without a password.
PhisherSeenDead ==
  /\ pc = "phish_check"
  /\ wifiphisher.state = "TERMINATED"
  /\ wifiphisher.password = None

\* C8: once the poll loop observes a terminated Phisher without a password,
\* its next step leaves the loop (no further update or sleep), and the run
\* eventually exits with status 82.
C8_DeadPhisherEndsRun ==
  /\ [][PhisherSeenDead => pc' = "returned"]_vars
  /\ PhisherSeenDead ~> (pc = "exited" /\ exit_status = << 82 >>)

\* C8 witness: the Phisher was observed terminated without a password, was
\* torn down, and the run has exited with status 82.
C8_Witness ==
  /\ pc = "exited"
  /\ exit_status = << 82 >>
  /\ wifiphisher.state = "TERMINATED"
  /\ wifiphisher.password = None
  /\ ~wifiphisher.active

\* The teardown calls of the spoof/capture phase, in the order they were made.
IsTeardownCall(c) == c \in {"dumpcap.cleanup", "arp.stop", "arp.clean", "disconnect"}

Teardown == SelectSeq(calls, IsTeardownCall)

TeardownOrder == << "dumpcap.cleanup", "arp.stop", "arp.clean", "disconnect" >>

IsPrefix(a, b) == Len(a) <= Len(b) /\ SubSeq(b, 1, Len(a)) = a

C10_RequirementFailure ==
  requirement # None =>
    /\ pc \in {"returned", "exited"}
    /\ requirement = "UidRequirement" => outcomes = << 77 >>
    /\ requirement # "UidRequirement" => outcomes = << 69 >>
    /\ pc = "exited" => exit_status = outcomes
    /\ calls = << "config.cleanup" >>
    /\ mode = "managed"
    /\ ~wifiphisher.active

\* C10 witness: a run with a failed non-UID requirement has exited with 69.
C10_Witness ==
  /\ requirement = "CommandRequirement"
  /\ pc = "exited"
  /\ exit_status = << 69 >>

\* The positions of main() inside the with block of the Phisher.
PhishingPcs ==
  {"phish_loop", "phish_update", "phish_check", "phish_sleep", "verify",
   "phish_return"}

\* C11: when the target is cracked after the Unlocker call, the Phisher is
\* never acquired, connect is called at most once and with the chosen target,
\* and exactly once by the time the run has ended.
C11_CrackedConnectsOnce ==
  cracked =>
    /\ ~Called("wifiphisher.enter")
    /\ pc \notin PhishingPcs \cup {"phisher_enter"}
    /\ Count(calls, "connect") <= 1
    /\ Called("connect") =>
         /\ connect_arg = target
         /\ target \in 1..Len(scan)
         /\ scan[connect_arg].essid = essid
    /\ MainEnded => Count(calls, "connect") = 1

\* C11 witness: with phishing enabled and the target cracked by the Unlocker,
\* a run has ended after exactly one connect and no Phisher.
C11_Witness ==
  /\ cracked
  /\ phishing_enabled
  /\ pc = "exited"
  /\ exit_status = << 0 >>
  /\ Count(calls, "connect") = 1
  /\ connect_arg = target
  /\ ~Called("wifiphisher.enter")

\* C12: the exit status of the members of ExitCode are the documented ones,
\* no two members share a status, and the status a run exits with is the
\* value of exactly one member.
C12_ExitCodeInjective ==
  /\ \A m1, m2 \in ExitCodeMembers :
       m1 # m2 => ExitCodeValue(m1) # ExitCodeValue(m2)
  /\ { ExitCodeValue(m) : m \in ExitCodeMembers } = {0, 2, 69, 77, 79, 80, 81, 82, 130}
  /\ pc = "exited" =>
       /\ Len(exit_status) = 1
       /\ Cardinality({ m \in ExitCodeMembers : ExitCodeValue(m) = exit_status[1] }) = 1

\* C12 witness: a run has exited with the status of NOT_IN_ANY_DICTIONARY.
C12_Witness ==
  /\ pc = "exited"
  /\ exit_status = << ExitCodeValue("NOT_IN_ANY_DICTIONARY") >>
  /\ exit_status = << 80 >>

\* Position of the first occurrence of call c in the log (0: none).
FirstCall(c) ==
  IF Called(c)
  THEN CHOOSE i \in 1..Len(calls) : calls[i] = c /\ \A j \in 1..(i - 1) : calls[j] # c
  ELSE 0

\* C13: once the scan call has been made and has ended in any way, the next
\* call is stop_monitor_mode and the interface is back in managed mode by the
\* time control has left the scanning stage.
C13_ScanRestoresManaged ==
  (Called("scan_once") /\ pc # "scan_stop_monitor") =>
    /\ Len(calls) > FirstCall("scan_once")
    /\ calls[FirstCall("scan_once") + 1] = "stop_monitor_mode"
    /\ pc \in {"find_target", "raised"} => mode = "managed"

\* C14: once the Unlocker call has ended and the finally block has run, the
\* call after unlocker.start is stop_monitor_mode and the interface is in
\* managed mode, for every result; a failure or interrupt then leaves main()
\* as that exception, and a dictionary miss leaves the target uncracked and
\* takes control to the fork (on to phishing, or to the return of 80).
C14_UnlockRestoresManaged ==
  (unlock_result # None /\ pc # "unlock_stop_monitor") =>
    /\ mode = "managed"
    /\ Len(calls) > FirstCall("unlocker.start")
    /\ calls[FirstCall("unlocker.start") + 1] = "stop_monitor_mode"
    /\ unlock_result \in {Error, KeyboardInterrupt} =>
         pc = "raised" /\ exc = unlock_result
    /\ unlock_result = PassphraseNotInAnyDictionaryError =>
         /\ ~cracked
         /\ exc # PassphraseNotInAnyDictionaryError
         /\ \/ pc \in {"fork", "phisher_enter"}
            \/ Called("wifiphisher.enter")
            \/ outcomes = << NOT_IN_ANY_DICTIONARY >>

\* C14 witness: the Unlocker call was interrupted, managed mode was restored
\* and the interrupt then left main().
C14_Witness ==
  /\ unlock_result = KeyboardInterrupt
  /\ pc = "raised"
  /\ exc = KeyboardInterrupt
  /\ mode = "managed"
  /\ calls[Len(calls)] = "stop_monitor_mode"

\* C15: a chosen target is the first entry of the scan with the requested
\* essid, a scan that holds such an entry always yields a target, and the
\* monitor mode for unlocking is locked to the channel of the chosen entry.
C15_FirstMatchChosen ==
  /\ target # 0 =>
       /\ target \in 1..Len(scan)
       /\ scan[target].essid = essid
       /\ \A j \in 1..(target - 1) : scan[j].essid # essid
  /\ (ScanReturned /\ pc \notin {"scan_stop_monitor", "find_target"} /\ ~NoMatch) =>
       target # 0
  /\ pc = "unlock" => mode = "monitor" /\ channel = scan[target].channel

\* C15 witness: the scan holds the requested essid twice, on different
\* channels; the first entry is chosen and monitor mode is on its channel.
C15_Witness ==
  /\ pc = "unlock"
  /\ Len(scan) = 2
  /\ scan[1].essid = essid
  /\ scan[2].essid = essid
  /\ scan[1].channel # scan[2].channel
  /\ target = 1
  /\ channel = scan[1].channel

\* C16: when the spoofer was started and a capture recorder call (its
\* construction, update or teardown) failed, the run does not end before
\* spoofer stop, spoofer clear and disconnect have been called.
C16_RecorderFailureKeepsTeardown ==
  ( /\ MainEnded
    /\ Called("arp.start")
    /\ failed_at \in {"dumpcap.new", "dumpcap.update", "dumpcap.cleanup"} ) =>
    /\ Called("arp.stop")
    /\ Called("arp.clean")
    /\ Called("disconnect")

\* The positions of main() inside the inner try block of the spoof/capture
\* phase, its finally block included.
SpoofLoopPcs == {"arp_update", "dumpcap_update", "spoof_sleep", "dumpcap_cleanup"}

\* C17: a capture recorder that was created has been torn down, exactly once,
\* whenever control is outside the spoof/capture loop, however the loop was
\* left, and before any spoofer stop.
C17_RecorderTornDown ==
  (dumpcap # None /\ pc \notin SpoofLoopPcs) =>
    /\ dumpcap = "cleaned"
    /\ loop_exit \in {KeyboardInterrupt, Error}
    /\ Count(calls, "dumpcap.cleanup") = 1
    /\ Called("arp.stop") => FirstCall("dumpcap.cleanup") < FirstCall("arp.stop")

\* C17 witness: the recorder's own update step failed, the recorder was torn
\* down and the failure left main().
C17_Witness ==
  /\ failed_at = "dumpcap.update"
  /\ loop_exit = Error
  /\ pc = "raised"
  /\ dumpcap = "cleaned"
  /\ Called("dumpcap.cleanup")

\* C18: the Phisher is active only inside its with block; once acquired and
\* the block is left, in any way, it has been torn down exactly once, and
\* that teardown precedes connect and the start of the spoofer, so the two
\* poll loops never overlap.
C18_PhisherScoped ==
  /\ wifiphisher.active => pc \in PhishingPcs
  /\ (Called("wifiphisher.enter") /\ pc \notin PhishingPcs) =>
       /\ ~wifiphisher.active
       /\ Count(calls, "wifiphisher.exit") = 1
  /\ (Called("wifiphisher.enter") /\ Called("connect")) =>
       /\ FirstCall("wifiphisher.exit") > FirstCall("wifiphisher.enter")
       /\ FirstCall("wifiphisher.exit") < FirstCall("connect")
  /\ pc \in SpoofLoopPcs => ~wifiphisher.active

\* C18 witness: after a verified phished passphrase the spoof/capture loop
\* runs with the Phisher torn down.
C18_Witness ==
  /\ Called("wifiphisher.enter")
  /\ verified = "ok"
  /\ pc = "spoof_sleep"
  /\ ~wifiphisher.active
  /\ Called("wifiphisher.exit")

C20_ConnectOnlyWhenUnlocked ==
  /\ Called("connect") =>
       \/ cracked /\ unlock_result = "ok"
       \/ verified = "ok" /\ wifiphisher.password \in Passwords
  /\ (outcomes # << >> /\ outcomes[Len(outcomes)] = EX_OK) =>
       /\ 0 < FirstCall("connect")
       /\ FirstCall("connect") < FirstCall("arp.start")
       /\ FirstCall("arp.start") < FirstCall("arp.stop")
       /\ FirstCall("arp.stop") < FirstCall("arp.clean")
       /\ FirstCall("arp.clean") < FirstCall("disconnect")
       /\ FirstCall("disconnect") < FirstCall("config.cleanup")

\* C20 witness: an uncracked target whose phished passphrase was accepted
\* ended in a run with exit status 0.
C20_Witness ==
  /\ pc = "exited"
  /\ exit_status = << 0 >>
  /\ ~cracked
  /\ verified = "ok"
  /\ Called("disconnect")

====
